---- MODULE Spec2Model ----
(***************************************************************************)
(* Model of the injection-point resolution engine of @loopback/context:    *)
(*   - binding-filter.ts : filterByKey, filterByTag, wildcardToRegExp      *)
(*   - inject.ts         : the resolver strategies of @inject.*            *)
(*   - inject-config.ts  : the resolver strategies of @config.*            *)
(* Strings that are matched character by character (binding keys, tag      *)
(* names, wildcard patterns, regular expressions) are sequences of         *)
(* one-character strings.                                                   *)
(***************************************************************************)
EXTENDS Integers, Sequences, FiniteSets, TLC

VARIABLES
    \* ---- binding-filter.ts ----
    fPattern,    \* the pattern handed to filterByKey / filterByTag
    filt,        \* the BindingFilter that was returned
    fBinding,    \* the binding the filter was last applied to
    fSelected,   \* what the filter answered: "none" | "true" | "false"
    fAgain,      \* what it answered when applied to the same binding once more
    \* ---- the store (Context) ----
    registry,    \* binding key -> bound value, or Unbound
    lookups,     \* number of lookups (get / getConfig / find) getters made so far
    \* ---- resolution sessions ----
    sessions,    \* the ResolutionSession objects; a session is named by its index
    \* ---- what the resolvers returned ----
    getters,     \* the getter closures returned by the getter strategies
    setters,     \* the setter closures returned by resolveAsSetter
    views,       \* the ConfigView objects returned by resolveAsViewFromConfig
    last,        \* the outcome of the last resolver or closure call
    \* ---- the declaration ----
    injection,   \* the Injection descriptor the resolvers are called with
    declared,    \* the descriptors the declaration facility has registered
    applied,     \* the site the declaration was last applied to
    twin         \* the descriptor of @config for the same arguments, and the
                 \* outcome of its resolver on the same store and session

fvars == <<fPattern, filt, fBinding, fSelected, fAgain>>

dvars == <<declared, applied, twin>>

evars == <<registry, lookups, sessions, getters, setters, views, last, injection>>

vars == <<fPattern, filt, fBinding, fSelected, fAgain,
          registry, lookups, sessions, getters, setters, views, last, injection,
          declared, applied, twin>>

(***************************************************************************)
(* Bounds                                                                   *)
(***************************************************************************)
MaxPatLen == 3
MaxKeyLen == 3
MaxTags == 2
MaxGetters == 2
MaxCalls == 2
MaxCallers == 1
MaxSetters == 2
MaxViews == 1

\* every caller and every getter can hold a session of its own
MaxSessions == MaxCallers + MaxGetters

(***************************************************************************)
(* Characters                                                               *)
(***************************************************************************)
PatChars == {"a", ".", ":", "*", "?"}
KeyChars == {"a", "b", ".", ":"}
Undefined == "undefined"

SeqsUpTo(S, n) == UNION {[1..m -> S] : m \in 0..n}

RECURSIVE Flatten(_)
Flatten(ss) == IF ss = <<>> THEN <<>> ELSE Head(ss) \o Flatten(Tail(ss))

(***************************************************************************)
(* wildcardToRegExp: escape the reserved characters, then replace the      *)
(* wildcard characters, then anchor.                                        *)
(***************************************************************************)
ReservedChars ==
    {"-", "[", "]", "/", "{", "}", "(", ")", "+", ".", "\\", "^", "$", "|", ":"}

EscapeReserved(pattern) ==
    Flatten([i \in 1..Len(pattern) |->
                IF pattern[i] \in ReservedChars
                THEN <<"\\", pattern[i]>> ELSE <<pattern[i]>>])

ReplaceChar(s, c, by) ==
    Flatten([i \in 1..Len(s) |-> IF s[i] = c THEN by ELSE <<s[i]>>])

NotSepClass == <<"[", "^", ".", ":", "]">>

wildcardToRegExpNoEscape(pattern) ==
    LET stars   == ReplaceChar(pattern, "*", NotSepClass \o <<"*">>)
        marks   == ReplaceChar(stars, "?", NotSepClass)
    IN  <<"^">> \o marks \o <<"$">>

wildcardToRegExp(pattern) ==
    LET escaped == EscapeReserved(pattern)
        stars   == ReplaceChar(escaped, "*", NotSepClass \o <<"*">>)
        marks   == ReplaceChar(stars, "?", NotSepClass)
    IN  <<"^">> \o marks \o <<"$">>

(***************************************************************************)
(* RegExp.prototype.test for the regular expressions used here: a sequence *)
(* of atoms (escaped character, plain character, `.`, the class `[^.:]`),  *)
(* each optionally followed by `*`, between the anchors `^` and `$`.       *)
(***************************************************************************)
RECURSIVE ParseRegExp(_)
ParseRegExp(re) ==
    IF re = <<>> THEN <<>>
    ELSE
      LET atomLen == IF re[1] = "\\" THEN 2
                     ELSE IF re[1] = "[" THEN 5
                     ELSE 1
          kind == IF re[1] = "\\" THEN "lit"
                  ELSE IF re[1] = "[" THEN "notsep"
                  ELSE IF re[1] = "." THEN "any"
                  ELSE "lit"
          ch == IF re[1] = "\\" THEN re[2] ELSE re[1]
          starred == Len(re) > atomLen /\ re[atomLen + 1] = "*"
          used == IF starred THEN atomLen + 1 ELSE atomLen
      IN  <<[kind |-> kind, ch |-> ch, star |-> starred]>>
            \o ParseRegExp(SubSeq(re, used + 1, Len(re)))

AtomMatches(atom, c) ==
    CASE atom.kind = "lit"    -> c = atom.ch
      [] atom.kind = "any"    -> TRUE
      [] atom.kind = "notsep" -> c \notin {".", ":"}

RECURSIVE MatchAtoms(_, _)
MatchAtoms(atoms, s) ==
    IF atoms = <<>> THEN s = <<>>
    ELSE IF atoms[1].star
         THEN \/ MatchAtoms(Tail(atoms), s)
              \/ /\ s # <<>>
                 /\ AtomMatches(atoms[1], s[1])
                 /\ MatchAtoms(atoms, Tail(s))
         ELSE /\ s # <<>>
              /\ AtomMatches(atoms[1], s[1])
              /\ MatchAtoms(Tail(atoms), Tail(s))

RegExpTest(re, s) ==
    /\ Len(re) >= 2
    /\ re[1] = "^"
    /\ re[Len(re)] = "$"
    /\ MatchAtoms(ParseRegExp(SubSeq(re, 2, Len(re) - 1)), s)

\* The flags of a RegExp object: none, or `g` (global).  A global regex
\* carries lastIndex: test() searches from lastIndex, sets it to the end of
\* the match when there is one, and to 0 when there is none.  Between the
\* anchors `^` and `$` a match starts at index 0 and ends at the end of the
\* string, so a search from a lastIndex other than 0 finds nothing.
RegExpFlags == {"", "g"}

RegExpExec(re, flags, lastIndex, s) ==
    IF flags # "g"
    THEN [found |-> RegExpTest(re, s), lastIndex |-> lastIndex]
    ELSE IF lastIndex > Len(s)
    THEN [found |-> FALSE, lastIndex |-> 0]
    ELSE IF lastIndex = 0 /\ RegExpTest(re, s)
    THEN [found |-> TRUE, lastIndex |-> Len(s)]
    ELSE [found |-> FALSE, lastIndex |-> 0]

(***************************************************************************)
(* Bindings as the filters see them: key, tagMap, and tagNames (the names  *)
(* of the entries of tagMap).                                               *)
(***************************************************************************)
TagNameSet == {<<"a">>, <<"b">>, <<"a", "b">>}
TagValues == {"x", "y"}
NoTags == [t \in {} |-> "x"]

TagMaps ==
    UNION {[D -> TagValues] : D \in {E \in SUBSET TagNameSet : Cardinality(E) <= MaxTags}}

KeyBindings == {[key |-> k, tagMap |-> NoTags] : k \in SeqsUpTo(KeyChars, MaxKeyLen)}
TagBindings == {[key |-> <<"a">>, tagMap |-> m] : m \in TagMaps}
Bindings == KeyBindings \cup TagBindings

tagNames(b) == DOMAIN b.tagMap

\* b.tagMap[t]: reading an absent property yields undefined
TagValue(m, t) == IF t \in DOMAIN m THEN m[t] ELSE Undefined

(***************************************************************************)
(* Patterns: what a caller may hand to filterByKey / filterByTag.          *)
(*   kind "string"   : a wildcard string (str)                             *)
(*   kind "regexp"   : a precompiled RegExp (str is its source)            *)
(*   kind "function" : a BindingFilter written by the caller (fn)          *)
(*   kind "object"   : a tag-value map (map)                               *)
(*   kind "absent", "null", "number" : none of the above                   *)
(***************************************************************************)
UserFilters == {"hasTags", "keyIsA"}

UserFilter(fn, b) ==
    CASE fn = "hasTags" -> tagNames(b) # {}
      [] fn = "keyIsA"  -> b.key = <<"a">>
      [] OTHER          -> FALSE

PrecompiledRegExps == {<<"^", "a", ".", "*", "$">>, <<"^", "[", "^", ".", ":", "]", "$">>}

MalformedKinds == {"absent", "null", "number"}

\* (flags: the flags of a precompiled regex)
Pattern(kind, str, fn, map) ==
    [kind |-> kind, str |-> str, fn |-> fn, map |-> map, flags |-> ""]
NoPattern == Pattern("none", <<>>, "", NoTags)

StringPatterns == {Pattern("string", s, "", NoTags) : s \in SeqsUpTo(PatChars, MaxPatLen)}
RegExpPatterns ==
    {[Pattern("regexp", r, "", NoTags) EXCEPT !.flags = fl] :
        r \in PrecompiledRegExps, fl \in RegExpFlags}
FunctionPatterns == {Pattern("function", <<>>, f, NoTags) : f \in UserFilters}
MapPatterns == {Pattern("object", <<>>, "", m) : m \in TagMaps}
MalformedPatterns == {Pattern(k, <<>>, "", NoTags) : k \in MalformedKinds}

KeyPatterns == StringPatterns \cup RegExpPatterns \cup FunctionPatterns \cup MalformedPatterns
TagPatterns == StringPatterns \cup RegExpPatterns \cup MapPatterns \cup MalformedPatterns

(***************************************************************************)
(* Filters: the closures returned by filterByKey / filterByTag.            *)
(*   "keyRegExp" : binding => regex.test(binding.key)                      *)
(*   "tagRegExp" : b => Array.from(b.tagNames).some(t => regexp.test(t))   *)
(*   "tagMap"    : b => every t in tagPattern has b.tagMap[t] === value    *)
(*   "function"  : the caller's own filter                                 *)
(*   "all"       : () => true                                              *)
(*   "throws"    : no filter was returned, the constructor threw           *)
(***************************************************************************)
\* (flags, lastIndex: of the regex the closure holds)
Filter(kind, re, fn, map) ==
    [kind |-> kind, re |-> re, fn |-> fn, map |-> map, flags |-> "", lastIndex |-> 0]
NoFilter == Filter("none", <<>>, "", NoTags)

\* for (const t in tagPattern): the enumerable properties of the pattern;
\* a number, null or undefined has none
EnumerableKeys(tagPattern) ==
    IF tagPattern.kind = "object" THEN DOMAIN tagPattern.map ELSE {}

filterByTag(tagPattern) ==
    IF tagPattern.kind \in {"string", "regexp"}
    THEN [Filter("tagRegExp",
                 IF tagPattern.kind = "string"
                 THEN wildcardToRegExp(tagPattern.str) ELSE tagPattern.str,
                 "", NoTags)
          EXCEPT !.flags = IF tagPattern.kind = "string" THEN "" ELSE tagPattern.flags]
    ELSE Filter("tagMap", <<>>, "",
                [t \in EnumerableKeys(tagPattern) |-> tagPattern.map[t]])

filterByKey(keyPattern) ==
    IF keyPattern.kind = "string"
    THEN Filter("keyRegExp", wildcardToRegExp(keyPattern.str), "", NoTags)
    ELSE IF keyPattern.kind = "regexp"
    THEN [Filter("keyRegExp", keyPattern.str, "", NoTags)
          EXCEPT !.flags = keyPattern.flags]
    ELSE IF keyPattern.kind = "function"
    THEN Filter("function", <<>>, keyPattern.fn, NoTags)
    ELSE Filter("all", <<>>, "", NoTags)

\* binding => regex.test(binding.key)
KeyRegExpSelects(re, b) == RegExpTest(re, b.key)

\* b => Array.from(b.tagNames).some(t => regexp.test(t))
TagRegExpSelectsAll(re, b) == \A t \in tagNames(b) : RegExpTest(re, t)
TagRegExpSelects(re, b) == \E t \in tagNames(b) : RegExpTest(re, t)

\* b => { for (const t in tagPattern) if (b.tagMap[t] !== tagPattern[t])
\*          return false; return true; }
TagMapSelectsAny(map, b) ==
    \E t \in DOMAIN map : TagValue(b.tagMap, t) = map[t]
TagMapSelects(map, b) ==
    \A t \in DOMAIN map : TagValue(b.tagMap, t) = map[t]

\* calling the returned closure on a binding
Select(f, b) ==
    CASE f.kind = "keyRegExp" -> KeyRegExpSelects(f.re, b)
      [] f.kind = "tagRegExp" -> TagRegExpSelects(f.re, b)
      [] f.kind = "tagMap"    -> TagMapSelects(f.map, b)
      [] f.kind = "function"  -> UserFilter(f.fn, b)
      [] f.kind = "all"       -> TRUE
      [] OTHER                -> FALSE

\* Array.from(b.tagNames): the tag names in the order the binding has them
TagOrder == << <<"a">>, <<"a", "b">>, <<"b">> >>

tagNamesInOrder(b) ==
    LET Has(t) == t \in tagNames(b)
    IN  SelectSeq(TagOrder, Has)

\* names.some(t => regexp.test(t)): the tests are made in order up to the
\* first that succeeds, each from the lastIndex the one before left
RECURSIVE SomeTest(_, _, _, _)
SomeTest(re, flags, lastIndex, names) ==
    IF names = <<>> THEN [found |-> FALSE, lastIndex |-> lastIndex]
    ELSE LET first == RegExpExec(re, flags, lastIndex, Head(names))
         IN  IF first.found THEN first
             ELSE SomeTest(re, flags, first.lastIndex, Tail(names))

\* calling the returned closure on a binding: the answer, and the closure
\* afterwards (the regex it holds may have moved its lastIndex)
Call(f, b) ==
    IF f.kind = "keyRegExp" /\ f.flags = "g"
    THEN LET done == RegExpExec(f.re, f.flags, f.lastIndex, b.key)
         IN  [selected |-> done.found,
              filter |-> [f EXCEPT !.lastIndex = done.lastIndex]]
    ELSE IF f.kind = "tagRegExp" /\ f.flags = "g"
    THEN LET done == SomeTest(f.re, f.flags, f.lastIndex, tagNamesInOrder(b))
         IN  [selected |-> done.found,
              filter |-> [f EXCEPT !.lastIndex = done.lastIndex]]
    ELSE [selected |-> Select(f, b), filter |-> f]

BoolStr(x) == IF x THEN "true" ELSE "false"

(***************************************************************************)
(* Actions of the filter language                                           *)
(***************************************************************************)
FIdle ==
    /\ fPattern = [ctor |-> "none", pattern |-> NoPattern]
    /\ filt = NoFilter
    /\ fBinding = [key |-> <<>>, tagMap |-> NoTags]
    /\ fSelected = "none"
    /\ fAgain = "none"

\* filterByKey(keyPattern) on the argument at hand
CallFilterByKey ==
    /\ filt.kind = "none"
    /\ fPattern.pattern \in KeyPatterns
    /\ fPattern' = [fPattern EXCEPT !.ctor = "filterByKey"]
    /\ filt' = filterByKey(fPattern.pattern)
    /\ UNCHANGED <<fBinding, fSelected, fAgain>>
    /\ UNCHANGED <<evars, dvars>>

\* filterByTag(tagPattern) on the argument at hand
CallFilterByTag ==
    /\ filt.kind = "none"
    /\ fPattern.pattern \in TagPatterns
    /\ fPattern' = [fPattern EXCEPT !.ctor = "filterByTag"]
    /\ filt' = filterByTag(fPattern.pattern)
    /\ UNCHANGED <<fBinding, fSelected, fAgain>>
    /\ UNCHANGED <<evars, dvars>>

\* The bindings a filter is tried on differ in the component it reads.
BindingsFor(f) ==
    CASE f.kind = "keyRegExp"             -> KeyBindings
      [] f.kind \in {"tagRegExp", "tagMap"} -> TagBindings
      [] OTHER                            -> Bindings

\* filter(binding): the returned closure is called on the binding at hand
ApplyFilter ==
    /\ filt.kind \notin {"none", "throws"}
    /\ fSelected = "none"
    /\ fBinding \in BindingsFor(filt)
    /\ fSelected' = BoolStr(Call(filt, fBinding).selected)
    /\ filt' = Call(filt, fBinding).filter
    /\ UNCHANGED <<fPattern, fBinding, fAgain>>
    /\ UNCHANGED <<evars, dvars>>

FNext == CallFilterByKey \/ CallFilterByTag \/ ApplyFilter

\* filter(binding) once more, on the binding it has already answered for
ApplyFilterAgain ==
    /\ fSelected # "none"
    /\ fAgain' = BoolStr(Call(filt, fBinding).selected)
    /\ filt' = Call(filt, fBinding).filter
    /\ UNCHANGED <<fPattern, fBinding, fSelected>>
    /\ UNCHANGED <<evars, dvars>>

\* the other bindings a filter is called on in between
OtherBindings(f) ==
    {b \in BindingsFor(f) : Len(b.key) <= 1 /\ Cardinality(tagNames(b)) <= 1}

\* filter(other): the answer is dropped
ApplyFilterToOther ==
    /\ filt.kind \notin {"none", "throws"}
    /\ \E b \in OtherBindings(filt) : filt' = Call(filt, b).filter
    /\ UNCHANGED <<fPattern, fBinding, fSelected, fAgain>>
    /\ UNCHANGED <<evars, dvars>>

FRNext == FNext \/ ApplyFilterAgain \/ ApplyFilterToOther

(***************************************************************************)
(* Properties of the filter language                                        *)
(***************************************************************************)
Separators == {".", ":"}

\* The wildcard language as documented: `*` is any run of non-separators,
\* `?` is one non-separator, any other character is itself.
RECURSIVE WildMatch(_, _)
WildMatch(p, k) ==
    IF p = <<>> THEN k = <<>>
    ELSE IF p[1] = "*"
         THEN \/ WildMatch(Tail(p), k)
              \/ /\ k # <<>>
                 /\ k[1] \notin Separators
                 /\ WildMatch(p, Tail(k))
    ELSE IF p[1] = "?"
         THEN /\ k # <<>>
              /\ k[1] \notin Separators
              /\ WildMatch(Tail(p), Tail(k))
    ELSE /\ k # <<>>
         /\ k[1] = p[1]
         /\ WildMatch(Tail(p), Tail(k))

HasWildcard(p) == \E i \in 1..Len(p) : p[i] \in {"*", "?"}

Applied(ctor, kind) ==
    /\ fPattern.ctor = ctor
    /\ fPattern.pattern.kind = kind
    /\ fSelected # "none"

\* C7: filterByKey(p) of a string p selects a binding iff its whole key
\* matches p read as a wildcard pattern; without `*` and `?` that is
\* equality of the key with p.
C7_KeyWildcard ==
    Applied("filterByKey", "string") =>
        /\ (fSelected = "true") <=> WildMatch(fPattern.pattern.str, fBinding.key)
        /\ ~HasWildcard(fPattern.pattern.str) =>
              ((fSelected = "true") <=> (fBinding.key = fPattern.pattern.str))

\* `a.*` was applied to the key `a.b` and selected it
C7_Witness ==
    /\ Applied("filterByKey", "string")
    /\ fPattern.pattern.str = <<"a", ".", "*">>
    /\ fBinding.key = <<"a", ".", "b">>
    /\ fSelected = "true"

\* C8: filterByTag(m) of a tag-value map m selects a binding iff the
\* binding's tag map agrees with m on every key of m; the binding's other
\* tags do not matter.
C8_TagMapAllPairs ==
    Applied("filterByTag", "object") =>
        LET m == fPattern.pattern.map
            restricted == [t \in DOMAIN fBinding.tagMap \cap DOMAIN m |->
                              fBinding.tagMap[t]]
        IN  /\ (fSelected = "true") <=>
                 \A t \in DOMAIN m :
                    /\ t \in DOMAIN fBinding.tagMap
                    /\ fBinding.tagMap[t] = m[t]
            /\ (fSelected = "true") <=> (restricted = m)

\* a one-entry map selected a binding that carries an unrelated tag as well
C8_Witness ==
    /\ Applied("filterByTag", "object")
    /\ DOMAIN fPattern.pattern.map = {<<"a">>}
    /\ DOMAIN fBinding.tagMap = {<<"a">>, <<"b">>}
    /\ fSelected = "true"

\* C9 as stated: filterByTag(s) of a string s selects a binding iff one of
\* its tag names equals s.
C9_TagNameExact ==
    Applied("filterByTag", "string") =>
        ((fSelected = "true") <=> (fPattern.pattern.str \in tagNames(fBinding)))

\* C9 amended: filterByTag(s) of a string s selects a binding iff one of its
\* tag names matches s read as a wildcard pattern; for s without `*` and `?`
\* that is a tag name equal to s.
C9_TagNameWildcard ==
    Applied("filterByTag", "string") =>
        /\ (fSelected = "true") <=>
              \E t \in tagNames(fBinding) : WildMatch(fPattern.pattern.str, t)
        /\ ~HasWildcard(fPattern.pattern.str) =>
              ((fSelected = "true") <=>
                  (fPattern.pattern.str \in tagNames(fBinding)))

\* the tag pattern `a?` selected a binding whose only tag is `ab`
C9_Witness ==
    /\ Applied("filterByTag", "string")
    /\ fPattern.pattern.str = <<"a", "?">>
    /\ tagNames(fBinding) = {<<"a", "b">>}
    /\ fSelected = "true"

\* C10: filterByKey of a pattern that is not a string, a regex or a function
\* raises an error instead of returning a filter.
C10_MalformedKeyPatternThrows ==
    (fPattern.ctor = "filterByKey" /\ fPattern.pattern.kind \in MalformedKinds)
        => filt.kind = "throws"

\* C14: a filter made by filterByKey or filterByTag of a string, a
\* precompiled regex or a tag map answers the same for the same binding
\* every time, whatever it was called on in between.
C14_FilterIsPure ==
    (fPattern.pattern.kind \in {"string", "regexp", "object"} /\ fAgain # "none")
        => fAgain = fSelected

(***************************************************************************)
(* Bound values.  A value is named by a string; the properties of the      *)
(* values that are objects are listed in PropTable.                         *)
(*   cfgA = {x: 1, y: 'a'}   cfgB = {x: 2, y: 'b'}                          *)
(*   cfgN = {x: 3, y: {z: 2}}   objZ = {z: 2}                               *)
(***************************************************************************)
PropTable ==
    (<<"cfgA", "x">> :> "1") @@ (<<"cfgA", "y">> :> "a") @@
    (<<"cfgB", "x">> :> "2") @@ (<<"cfgB", "y">> :> "b") @@
    (<<"cfgN", "x">> :> "3") @@ (<<"cfgN", "y">> :> "objZ") @@
    (<<"objZ", "z">> :> "2")

ConfigValues == {"cfgA", "cfgB", "cfgN"}
PlainValues == {"v1", "v2"}

\* value[p]
Prop(value, p) ==
    IF <<value, p>> \in DOMAIN PropTable THEN PropTable[<<value, p>>] ELSE Undefined

\* getDeepProperty(value, path): follow the segments of the path, stopping
\* with undefined when the value at hand is undefined
RECURSIVE getDeepProperty(_, _)
getDeepProperty(value, path) ==
    IF path = <<>> THEN value
    ELSE IF value = Undefined THEN Undefined
    ELSE getDeepProperty(Prop(value, Head(path)), Tail(path))

\* A configPath argument: a dotted path (its segments), possibly not given.
\* '' is the path without segments.
Path(given, segs) == [given |-> given, segs |-> segs]
PathSegs == {<<>>, <<"x">>, <<"y", "z">>}
ConfigPaths == {Path(TRUE, p) : p \in PathSegs} \cup {Path(FALSE, <<>>)}

\* configPath || ''
OrEmpty(configPath) == IF configPath.given THEN configPath.segs ELSE <<>>

(***************************************************************************)
(* The store.  Keys holds the addresses of the model; the configuration of *)
(* the binding K is itself a binding, at the key buildKeyForConfig(K).      *)
(***************************************************************************)
Keys == {"store1", "store2"}
Unbound == "<unbound>"

buildKeyForConfig(key) == key \o ":$config"

StoreKeys == Keys \cup {buildKeyForConfig(k) : k \in Keys}

EmptyStore == [k \in StoreKeys |-> Unbound]

isBound(reg, key) == key \in DOMAIN reg /\ reg[key] # Unbound

\* ctx.bind(key).to(value), ctx.configure(key, value)
BindTo(reg, key, value) == [reg EXCEPT ![key] = value]

\* a binding that was created and has no value yet
NoValue == "<no value>"

\* the outcome of a call: a returned value or a thrown error
Returned(v) == [threw |-> FALSE, value |-> v]
Threw(e) == [threw |-> TRUE, value |-> e]

(***************************************************************************)
(* Resolution sessions.  A session is a stack of the keys of the bindings  *)
(* being resolved; owner is 0 for a session held by the caller of the      *)
(* resolvers and the index of the getter for a session held by a getter.   *)
(***************************************************************************)
NoSession == 0

Session(stack, owner) == [stack |-> stack, owner |-> owner]

SessionIds == 1..Len(sessions)

OnStack(stack, key) == \E i \in 1..Len(stack) : stack[i] = key

\* session.currentBinding: the binding on top of the stack, if any
HasCurrentBinding(ss, s) == s # NoSession /\ ss[s].stack # <<>>
currentBindingKey(ss, s) == ss[s].stack[Len(ss[s].stack)]

StackOf(ss, s) == IF s = NoSession THEN <<>> ELSE ss[s].stack

\* ResolutionSession.fork(session): undefined for undefined, otherwise a new
\* session object with a copy of the stack.  Yields the new heap and the id.
ForkShared(ss, s, owner) == [heap |-> ss, id |-> s]
fork(ss, s, owner) ==
    IF s = NoSession
    THEN [heap |-> ss, id |-> NoSession]
    ELSE [heap |-> Append(ss, Session(ss[s].stack, owner)), id |-> Len(ss) + 1]

\* session.pushBinding / popBinding
Push(ss, s, key) == [ss EXCEPT ![s].stack = Append(@, key)]
Pop(ss, s) == [ss EXCEPT ![s].stack = SubSeq(@, 1, Len(@) - 1)]

(***************************************************************************)
(* Lookups of the store (Context).                                          *)
(***************************************************************************)
\* ctx.get(key, {session, optional}) as seen from a session stack
getValue(reg, key, optional, stack) ==
    IF ~isBound(reg, key)
    THEN IF optional THEN Returned(Undefined) ELSE Threw("NotBound")
    ELSE IF OnStack(stack, key) THEN Threw("CircularDependency")
    ELSE IF reg[key] = NoValue THEN Threw("NoValue")
    ELSE Returned(reg[key])

\* ctx.findOrCreateBinding(key, policy): the store afterwards, or a failure.
\* The default policy is CREATE_IF_NOT_BOUND.
findOrCreateBinding(reg, key, policy) ==
    CASE policy = "NEVER_CREATE" ->
            IF isBound(reg, key)
            THEN [threw |-> FALSE, reg |-> reg]
            ELSE [threw |-> TRUE, reg |-> reg]
      [] policy = "ALWAYS_CREATE" ->
            [threw |-> FALSE, reg |-> BindTo(reg, key, NoValue)]
      [] OTHER ->
            IF isBound(reg, key)
            THEN [threw |-> FALSE, reg |-> reg]
            ELSE [threw |-> FALSE, reg |-> BindTo(reg, key, NoValue)]

\* ctx.getConfigAsValueOrPromise(key, configPath, {session, optional})
getConfigAsValueOrPromise(reg, key, configPath, optional, stack) ==
    LET out == getValue(reg, buildKeyForConfig(key), optional, stack)
    IN  IF out.threw THEN out
        ELSE Returned(getDeepProperty(out.value, configPath))

\* Filters over the bindings of the store
AllFilter == [kind |-> "all", key |-> ""]
KeyEquals(key) == [kind |-> "keyEquals", key |-> key]
StoreFilters == {AllFilter} \cup {KeyEquals(k) : k \in Keys}

Matches(f, key) == f.kind = "all" \/ key = f.key

\* ctx.find(filter): the matching bindings in the order of the store
StoreOrder ==
    <<"store1", buildKeyForConfig("store1"), "store2", buildKeyForConfig("store2")>>

find(reg, f) ==
    LET Hit(key) == isBound(reg, key) /\ Matches(f, key)
    IN  SelectSeq(StoreOrder, Hit)

\* an array of values, named by its elements
RECURSIVE Joined(_)
Joined(vs) ==
    IF vs = <<>> THEN ""
    ELSE IF Len(vs) = 1 THEN vs[1]
    ELSE vs[1] \o "," \o Joined(Tail(vs))

ArrayOf(vs) == "[" \o Joined(vs) \o "]"

\* view.values(session): the values of the matching bindings, each resolved
\* with the session
\* (the list of the values, or the failure)
viewValues(reg, f, stack) ==
    LET found == find(reg, f)
    IN  IF \E i \in 1..Len(found) : OnStack(stack, found[i])
        THEN [threw |-> TRUE, error |-> "CircularDependency", values |-> <<>>]
        ELSE [threw |-> FALSE, error |-> "",
              values |-> [i \in 1..Len(found) |-> reg[found[i]]]]

\* the outcome of a call that yields a list of values
ListOutcome(vs) == IF vs.threw THEN Threw(vs.error) ELSE Returned(ArrayOf(vs.values))

(***************************************************************************)
(* Injection points.  The reflection facility reports the design type of   *)
(* the property, or else of the parameter; "unknown" when it has none.     *)
(***************************************************************************)
UnknownType == "unknown"
DesignTypes == {"Function", "Binding", "ContextView", "Array"}

Point(propertyType, parameterType) ==
    [propertyType |-> propertyType, parameterType |-> parameterType]

Points ==
    {Point(t, UnknownType) : t \in DesignTypes} \cup
    {Point(UnknownType, t) : t \in DesignTypes \cup {UnknownType}}

inspectTargetType(inj) ==
    IF inj.point.propertyType # UnknownType
    THEN inj.point.propertyType
    ELSE inj.point.parameterType

(***************************************************************************)
(* Injection descriptors and the declarations that make them.              *)
(*   selector  the bindingSelector: an address (isFilter = FALSE, address) *)
(*             or a filter function (isFilter = TRUE, filter)              *)
(*   metadata  decorator, optional ("unset" when the property is not       *)
(*             there, else "true" / "false"), configPath, bindingCreation  *)
(*   resolve   the resolver function of the descriptor                     *)
(*   point     the parameter or property the declaration is applied to     *)
(***************************************************************************)
OptionalFlags == {"unset", "true", "false"}

BindingCreationPolicies ==
    {"unset", "ALWAYS_CREATE", "NEVER_CREATE", "CREATE_IF_NOT_BOUND"}

\* the metadata argument of a declaration
Meta(optional, bindingCreation) ==
    [optional |-> optional, bindingCreation |-> bindingCreation]
NoMeta == Meta("unset", "unset")

AddressSelector(key) == [isFilter |-> FALSE, address |-> key, filter |-> AllFilter]
FilterSelector(f) == [isFilter |-> TRUE, address |-> "", filter |-> f]

\* isBindingAddress(bindingSelector): typeof bindingSelector !== 'function'
isBindingAddress(selector) == ~selector.isFilter

\* Object.assign(defaults, metadata).optional
AssignOptional(default, metadata) ==
    IF metadata.optional = "unset" THEN default ELSE metadata.optional

\* inject(bindingSelector, metadata, resolve) applied to a point
inject(selector, decorator, optional, configPath, metadata, resolve, point) ==
    [bindingSelector |-> selector,
     metadata |-> [decorator |-> decorator,
                   optional |-> optional,
                   configPath |-> configPath,
                   bindingCreation |-> metadata.bindingCreation],
     resolve |-> resolve,
     point |-> point]

\* inject.getter(bindingSelector, metadata)
injectGetter(selector, metadata, point) ==
    inject(selector, "@inject.getter", AssignOptional("unset", metadata), <<>>,
           metadata,
           IF isBindingAddress(selector)
           THEN "resolveAsGetter" ELSE "resolveAsGetterByFilter",
           point)

\* config.getter(configPath, metadata)
injectConfigGetter(configPath, metadata, point) ==
    inject(AddressSelector(""), "@config.getter",
           AssignOptional("true", metadata), OrEmpty(configPath),
           metadata, "resolveAsGetterFromConfig", point)

\* a property of the metadata read as a condition
Truthy(flag) == flag = "true"

NoInjection ==
    inject(AddressSelector(""), "none", "unset", <<>>, NoMeta, "none",
           Point(UnknownType, UnknownType))

\* assertTargetIsGetter: passes unless the type is known and not Function
TargetIsGetter(inj) ==
    LET targetType == inspectTargetType(inj)
    IN  ~(targetType # UnknownType /\ targetType # "Function")

(***************************************************************************)
(* Getter closures.                                                         *)
(*   kind     "address" (resolveAsGetter), "filter" (resolveAsGetterBy-    *)
(*            Filter), "config" (resolveAsGetterFromConfig)                *)
(*   key      the address, or the key of the current binding (config)      *)
(*   hasKey   config: whether a current binding key was captured           *)
(*   session  the session the closure holds;  creator: the session the     *)
(*            resolver was called with;  snapshot: the creator's stack     *)
(*            when the resolver was called                                  *)
(*   phase    "idle", or "running" while a lookup of the closure is        *)
(*            pending;  calls: how many times the closure was called;      *)
(*            result: the outcome of its last call                         *)
(***************************************************************************)
NoOutcome == Returned("<none>")

Getter(kind, key, hasKey, f, path, optional, session, creator, snapshot) ==
    [kind |-> kind, key |-> key, hasKey |-> hasKey, filter |-> f,
     path |-> path, optional |-> optional, session |-> session,
     creator |-> creator, snapshot |-> snapshot,
     phase |-> "idle", calls |-> 0, result |-> NoOutcome]

GetterIds == 1..Len(getters)

\* the last call: its name, the key and the argument it was about (if any)
\* and its outcome
\* (session and stack: the session it was given and the stack of that session)
LastCall(op, key, arg, s, out) ==
    [op |-> op, key |-> key, arg |-> arg, session |-> s,
     stack |-> StackOf(sessions, s), out |-> out]
LastOn(op, key, arg, out) == LastCall(op, key, arg, NoSession, out)
LastIn(op, s, out) == LastCall(op, "", "", s, out)
Last(op, out) == LastOn(op, "", "", out)

\* session = ResolutionSession.fork(session), for the closure to keep
forkForGetter(ss, s, owner) == fork(ss, s, owner)

\* a resolver can allocate the session and the closure it needs
RoomForGetter(s) ==
    /\ Len(getters) < MaxGetters
    /\ s # NoSession => Len(sessions) < MaxSessions

\* resolveAsGetter(ctx, injection, session)
resolveAsGetter(s) ==
    /\ injection.resolve = "resolveAsGetter"
    /\ RoomForGetter(s)
    /\ IF ~TargetIsGetter(injection)
       THEN /\ last' = Last("resolveAsGetter", Threw("TypeMismatch"))
            /\ UNCHANGED <<sessions, getters>>
       ELSE LET forked == forkForGetter(sessions, s, Len(getters) + 1)
            IN  /\ sessions' = forked.heap
                /\ getters' = Append(getters,
                      Getter("address", injection.bindingSelector.address, TRUE,
                             AllFilter, <<>>,
                             Truthy(injection.metadata.optional),
                             forked.id, s, StackOf(sessions, s)))
                /\ last' = Last("resolveAsGetter", Returned("getter"))
    /\ UNCHANGED <<registry, lookups, setters, views, injection, fvars, dvars>>

\* createViewGetter(ctx, bindingFilter, session): a getter over a view of
\* the filter, holding a fork of the session
createViewGetter(f, s) ==
    LET forked == fork(sessions, s, Len(getters) + 1)
    IN  /\ sessions' = forked.heap
        /\ getters' = Append(getters,
              Getter("filter", "", TRUE, f, <<>>, FALSE,
                     forked.id, s, StackOf(sessions, s)))

\* resolveAsGetterByFilter(ctx, injection, session)
resolveAsGetterByFilter(s) ==
    /\ injection.resolve = "resolveAsGetterByFilter"
    /\ RoomForGetter(s)
    /\ IF ~TargetIsGetter(injection)
       THEN /\ last' = Last("resolveAsGetterByFilter", Threw("TypeMismatch"))
            /\ UNCHANGED <<sessions, getters>>
       ELSE /\ createViewGetter(injection.bindingSelector.filter, s)
            /\ last' = Last("resolveAsGetterByFilter", Returned("getter"))
    /\ UNCHANGED <<registry, lookups, setters, views, injection, fvars, dvars>>

\* getCurrentBindingKey(session): session.currentBinding &&
\* session.currentBinding.key, for a session that is there; '' stands for
\* the undefined of a session without current binding
getCurrentBindingKeyBottom(ss, s) ==
    IF HasCurrentBinding(ss, s) THEN ss[s].stack[1] ELSE ""
getCurrentBindingKey(ss, s) ==
    IF HasCurrentBinding(ss, s) THEN currentBindingKey(ss, s) ELSE ""

\* resolveAsGetterFromConfig(ctx, injection, session) of @config.getter:
\* getCurrentBindingKey reads session.currentBinding, a TypeError when the
\* session is undefined
resolveAsGetterFromConfig(s) ==
    /\ injection.resolve = "resolveAsGetterFromConfig"
    /\ RoomForGetter(s)
    /\ IF s = NoSession
       THEN /\ last' = Last("resolveAsGetterFromConfig", Threw("TypeError"))
            /\ UNCHANGED <<sessions, getters>>
       ELSE LET bindingKey == getCurrentBindingKey(sessions, s)
                hasKey == bindingKey # ""
                forked == forkForGetter(sessions, s, Len(getters) + 1)
            IN  /\ sessions' = forked.heap
                /\ getters' = Append(getters,
                      Getter("config", bindingKey, hasKey, AllFilter,
                             injection.metadata.configPath,
                             Truthy(injection.metadata.optional),
                             forked.id, s, StackOf(sessions, s)))
                /\ last' = Last("resolveAsGetterFromConfig", Returned("getter"))
    /\ UNCHANGED <<registry, lookups, setters, views, injection, fvars, dvars>>

(***************************************************************************)
(* Calling a getter.  The lookup of a bound key is pending between         *)
(* CallGetter, which enters the binding on the session of the closure, and *)
(* SettleGetter, which leaves it and delivers the value.  A closure is not *)
(* called again while its lookup is pending.                                *)
(***************************************************************************)
\* the key a getter looks up
LookupKey(g) == IF g.kind = "config" THEN buildKeyForConfig(g.key) ELSE g.key

\* what the lookup of a getter yields, seen from a session stack
LookupOutcome(reg, g, stack) ==
    CASE g.kind = "address" -> getValue(reg, g.key, g.optional, stack)
      [] g.kind = "filter"  -> ListOutcome(viewValues(reg, g.filter, stack))
      [] g.kind = "config"  ->
            getConfigAsValueOrPromise(reg, g.key, g.path, g.optional, stack)

RECURSIVE TotalCalls(_)
TotalCalls(gs) == IF gs = <<>> THEN 0 ELSE Head(gs).calls + TotalCalls(Tail(gs))

\* if (!bindingKey) return undefined: a configuration getter without a
\* binding key returns before the lookup
GetterLooksUpAlways(g) == TRUE
GetterLooksUp(g) == ~(g.kind = "config" /\ ~g.hasKey)

CallGetter(i) ==
    LET g == getters[i]
        stack == StackOf(sessions, g.session)
    IN  /\ g.phase = "idle"
        /\ TotalCalls(getters) < MaxCalls
        /\ IF ~GetterLooksUp(g)
           THEN \* if (!bindingKey) return undefined
                /\ getters' = [getters EXCEPT ![i].calls = @ + 1,
                                              ![i].result = Returned(Undefined)]
                /\ UNCHANGED <<lookups, sessions>>
           ELSE /\ lookups' = lookups + 1
                /\ IF /\ g.kind # "filter"
                      /\ isBound(registry, LookupKey(g))
                      /\ ~OnStack(stack, LookupKey(g))
                   THEN /\ getters' = [getters EXCEPT ![i].calls = @ + 1,
                                                      ![i].phase = "running"]
                        /\ sessions' = IF g.session = NoSession THEN sessions
                                       ELSE Push(sessions, g.session, LookupKey(g))
                   ELSE /\ getters' = [getters EXCEPT
                              ![i].calls = @ + 1,
                              ![i].result = LookupOutcome(registry, g, stack)]
                        /\ UNCHANGED sessions
        /\ UNCHANGED <<registry, setters, views, last, injection, fvars, dvars>>

SettleGetter(i) ==
    LET g == getters[i]
        popped == IF g.session = NoSession THEN sessions ELSE Pop(sessions, g.session)
    IN  /\ g.phase = "running"
        /\ sessions' = popped
        /\ getters' = [getters EXCEPT
              ![i].phase = "idle",
              ![i].result = LookupOutcome(registry, g, StackOf(popped, g.session))]
        /\ UNCHANGED <<registry, lookups, setters, views, last, injection, fvars, dvars>>

(***************************************************************************)
(* The callers of the resolvers: a top-level resolution starts a session,  *)
(* and the store enters and leaves the bindings it resolves.                *)
(***************************************************************************)
CallerSessions == {s \in SessionIds : sessions[s].owner = 0}

NewSession ==
    /\ Len(sessions) < MaxSessions
    /\ Cardinality(CallerSessions) < MaxCallers
    /\ sessions' = Append(sessions, Session(<<>>, 0))
    /\ UNCHANGED <<registry, lookups, getters, setters, views, last, injection, fvars, dvars>>

\* pushing a key that is on the stack fails and leaves the session as it was
EnterBinding(s, key) ==
    /\ sessions[s].owner = 0
    /\ isBound(registry, key)
    /\ ~OnStack(sessions[s].stack, key)
    /\ sessions' = Push(sessions, s, key)
    /\ UNCHANGED <<registry, lookups, getters, setters, views, last, injection, fvars, dvars>>

LeaveBinding(s) ==
    /\ sessions[s].owner = 0
    /\ sessions[s].stack # <<>>
    /\ sessions' = Pop(sessions, s)
    /\ UNCHANGED <<registry, lookups, getters, setters, views, last, injection, fvars, dvars>>

(***************************************************************************)
(* The setter strategy.                                                     *)
(***************************************************************************)
\* inject.setter(bindingKey, metadata)
injectSetter(selector, metadata, point) ==
    inject(selector, "@inject.setter", AssignOptional("unset", metadata), <<>>,
           metadata, "resolveAsSetter", point)

SetterIds == 1..Len(setters)

\* resolveAsSetter(ctx, injection): the closure keeps ctx and the injection
resolveAsSetter ==
    /\ injection.resolve = "resolveAsSetter"
    /\ Len(setters) < MaxSetters
    /\ LET targetType == inspectTargetType(injection)
       IN  IF targetType # UnknownType /\ targetType # "Function"
           THEN /\ last' = Last("resolveAsSetter", Threw("TypeMismatch"))
                /\ UNCHANGED setters
           ELSE IF ~isBindingAddress(injection.bindingSelector)
           THEN \* the message reads targetType.name
                /\ last' = Last("resolveAsSetter",
                                IF targetType = UnknownType
                                THEN Threw("TypeError")
                                ELSE Threw("BindingFilterNotAllowed"))
                /\ UNCHANGED setters
           ELSE /\ setters' = Append(setters, [calls |-> 0])
                /\ last' = Last("resolveAsSetter", Returned("setter"))
    /\ UNCHANGED <<registry, lookups, sessions, getters, views, injection, fvars, dvars>>

\* findOrCreateBindingForInjection(ctx, injection)
findOrCreateBindingForInjection(reg, inj) ==
    findOrCreateBinding(reg, inj.bindingSelector.address,
                        inj.metadata.bindingCreation)

\* setter(value): binding = findOrCreateBindingForInjection(...);
\* binding.to(value)
setterNoWrite(reg, inj, value) ==
    LET found == findOrCreateBindingForInjection(reg, inj)
    IN  IF found.threw
        THEN [out |-> Threw("NotBound"), reg |-> reg]
        ELSE [out |-> Returned(Undefined), reg |-> found.reg]
setter(reg, inj, value) ==
    LET found == findOrCreateBindingForInjection(reg, inj)
    IN  IF found.threw
        THEN [out |-> Threw("NotBound"), reg |-> reg]
        ELSE [out |-> Returned(Undefined),
              reg |-> BindTo(found.reg, inj.bindingSelector.address, value)]

CallSetter(i, value) ==
    LET done == setter(registry, injection, value)
    IN  /\ setters[i].calls < MaxCalls
        /\ setters' = [setters EXCEPT ![i].calls = @ + 1]
        /\ registry' = done.reg
        /\ last' = LastOn("setter", injection.bindingSelector.address, value, done.out)
        /\ UNCHANGED <<lookups, sessions, getters, views, injection, fvars, dvars>>

\* inject.binding(bindingKey, metadata)
injectBinding(selector, metadata, point) ==
    inject(selector, "@inject.binding", AssignOptional("unset", metadata), <<>>,
           metadata, "resolveAsBinding", point)

\* resolveAsBinding(ctx, injection): the outcome and the store afterwards.
\* The message of the filter error reads targetType.name, a TypeError when
\* the type is unknown.
bindingOfAnySelector(reg, inj) ==
    LET targetType == inspectTargetType(inj)
        found == findOrCreateBindingForInjection(reg, inj)
    IN  IF targetType # UnknownType /\ targetType # "Binding"
        THEN [out |-> Threw("TypeMismatch"), reg |-> reg]
        ELSE IF found.threw
        THEN [out |-> Threw("NotBound"), reg |-> reg]
        ELSE [out |-> Returned("binding"), reg |-> found.reg]
bindingOf(reg, inj) ==
    LET targetType == inspectTargetType(inj)
        found == findOrCreateBindingForInjection(reg, inj)
    IN  IF targetType # UnknownType /\ targetType # "Binding"
        THEN [out |-> Threw("TypeMismatch"), reg |-> reg]
        ELSE IF ~isBindingAddress(inj.bindingSelector)
        THEN [out |-> IF targetType = UnknownType
                      THEN Threw("TypeError")
                      ELSE Threw("BindingFilterNotAllowed"),
              reg |-> reg]
        ELSE IF found.threw
        THEN [out |-> Threw("NotBound"), reg |-> reg]
        ELSE [out |-> Returned("binding"), reg |-> found.reg]

resolveAsBinding ==
    LET done == bindingOf(registry, injection)
    IN  /\ injection.resolve = "resolveAsBinding"
        /\ registry' = done.reg
        /\ last' = LastOn("resolveAsBinding", injection.bindingSelector.address,
                          "", done.out)
        /\ UNCHANGED <<lookups, sessions, getters, setters, views, injection, fvars, dvars>>

\* ctx.get(key) by anyone
GetValue(key) ==
    /\ last' = LastOn("get", key, "", getValue(registry, key, FALSE, <<>>))
    /\ UNCHANGED <<registry, lookups, sessions, getters, setters, views, injection, fvars, dvars>>

\* ctx.unbind(key) by anyone
Unbind(key) ==
    /\ isBound(registry, key)
    /\ registry' = BindTo(registry, key, Unbound)
    /\ last' = LastOn("unbind", key, "", Returned(Undefined))
    /\ UNCHANGED <<lookups, sessions, getters, setters, views, injection, fvars, dvars>>

(***************************************************************************)
(* The scoped-configuration strategies.                                     *)
(***************************************************************************)
\* inject.config(configPath, metadata) of inject.ts
injectConfig(configPath, metadata, point) ==
    inject(AddressSelector(""), "@inject.config",
           AssignOptional("true", metadata), OrEmpty(configPath),
           metadata, "inject.resolveFromConfig", point)

\* config(configPath, metadata) of inject-config.ts
config(configPath, metadata, point) ==
    inject(AddressSelector(""), "@config",
           AssignOptional("true", metadata), OrEmpty(configPath),
           metadata, "config.resolveFromConfig", point)

\* config.view(configPath, metadata)
injectConfigView(configPath, metadata, point) ==
    inject(AddressSelector(""), "@config.view",
           AssignOptional("true", metadata), OrEmpty(configPath),
           metadata, "resolveAsViewFromConfig", point)

\* resolveFromConfig of inject.ts
injectResolveFromConfig(reg, ss, inj, s) ==
    IF ~(s # NoSession /\ HasCurrentBinding(ss, s))
    THEN Returned(Undefined)
    ELSE getConfigAsValueOrPromise(reg, currentBindingKey(ss, s),
                                   inj.metadata.configPath,
                                   Truthy(inj.metadata.optional), ss[s].stack)

\* resolveFromConfig of inject-config.ts: getCurrentBindingKey(session)
\* reads session.currentBinding, a TypeError when the session is undefined
configResolveFromConfig(reg, ss, inj, s) ==
    IF s = NoSession THEN Threw("TypeError")
    ELSE IF getCurrentBindingKey(ss, s) = "" THEN Returned(Undefined)
    ELSE getConfigAsValueOrPromise(reg, getCurrentBindingKey(ss, s),
                                   inj.metadata.configPath,
                                   Truthy(inj.metadata.optional), ss[s].stack)

ResolveFromConfigInject(s) ==
    /\ injection.resolve = "inject.resolveFromConfig"
    /\ last' = LastIn("inject.resolveFromConfig", s,
                      injectResolveFromConfig(registry, sessions, injection, s))
    /\ UNCHANGED <<registry, lookups, sessions, getters, setters, views, injection, fvars, dvars>>

ResolveFromConfigConfig(s) ==
    /\ injection.resolve = "config.resolveFromConfig"
    /\ last' = LastIn("config.resolveFromConfig", s,
                      configResolveFromConfig(registry, sessions, injection, s))
    /\ UNCHANGED <<registry, lookups, sessions, getters, setters, views, injection, fvars, dvars>>

\* the resolvers of @inject.config and of @config, called with the same
\* store and session: resolveFromConfig of inject.ts on the descriptor of
\* inject.config, resolveFromConfig of inject-config.ts on its twin
ResolveFromConfigBoth(s) ==
    /\ injection.resolve = "inject.resolveFromConfig"
    /\ twin.injection.resolve = "config.resolveFromConfig"
    /\ last' = LastIn("resolveFromConfig", s,
                      injectResolveFromConfig(registry, sessions, injection, s))
    /\ twin' = [twin EXCEPT !.out =
                    configResolveFromConfig(registry, sessions, twin.injection, s)]
    /\ UNCHANGED <<registry, lookups, sessions, getters, setters, views,
                   injection, fvars, declared, applied>>

\* new ConfigView(ctx, filter, configPath?)
ConfigView(f, configPath) == [filter |-> f, configPath |-> configPath]

ViewIds == 1..Len(views)

\* resolveAsViewFromConfig(ctx, injection, session): the view is constructed
\* from ctx and the filter alone
resolveAsViewFromConfig(s) ==
    /\ injection.resolve = "resolveAsViewFromConfig"
    /\ Len(views) < MaxViews
    /\ LET targetType == inspectTargetType(injection)
       IN  IF targetType # UnknownType /\ targetType # "ContextView"
           THEN /\ last' = LastIn("resolveAsViewFromConfig", s, Threw("TypeMismatch"))
                /\ UNCHANGED views
           ELSE IF s = NoSession
           THEN /\ last' = LastIn("resolveAsViewFromConfig", s, Threw("TypeError"))
                /\ UNCHANGED views
           ELSE IF getCurrentBindingKey(sessions, s) = ""
           THEN /\ last' = LastIn("resolveAsViewFromConfig", s, Returned(Undefined))
                /\ UNCHANGED views
           ELSE /\ views' = Append(views,
                      ConfigView(KeyEquals(buildKeyForConfig(
                                    getCurrentBindingKey(sessions, s))),
                                 Path(FALSE, <<>>)))
                /\ last' = LastIn("resolveAsViewFromConfig", s, Returned("view"))
    /\ UNCHANGED <<registry, lookups, sessions, getters, setters, injection, fvars, dvars>>

\* ConfigView.values(session)
configViewValues(reg, view, stack) ==
    LET configValues == viewValues(reg, view.filter, stack)
        configPath == view.configPath
    IN  IF configValues.threw THEN configValues
        ELSE IF ~configPath.given \/ configPath.segs = <<>> THEN configValues
        ELSE [configValues EXCEPT !.values =
                [i \in 1..Len(@) |-> getDeepProperty(@[i], configPath.segs)]]

ViewValues(i, s) ==
    /\ last' = LastCall("values", views[i].filter.key, "", s,
                        ListOutcome(configViewValues(registry, views[i],
                                                     StackOf(sessions, s))))
    /\ UNCHANGED <<registry, lookups, sessions, getters, setters, views, injection, fvars, dvars>>

(***************************************************************************)
(* The strategies of a filter selector: the values and the view.            *)
(***************************************************************************)
\* inject(bindingSelector, metadata): a filter without a resolver is resolved
\* by resolveValuesByFilter; an address is left to the resolver of the caller
injectSelector(selector, metadata, point) ==
    inject(selector, "@inject", AssignOptional("unset", metadata), <<>>,
           metadata,
           IF ~isBindingAddress(selector) THEN "resolveValuesByFilter" ELSE "none",
           point)

\* inject.view(bindingFilter, metadata)
injectByFilter(f, metadata, point) ==
    inject(FilterSelector(f), "@inject.view", AssignOptional("unset", metadata),
           <<>>, metadata, "resolveAsContextView", point)

\* assertTargetIsArray(injection): targetType !== Array throws, and the
\* message reads targetType.name, a TypeError when the type is unknown
assertTargetIsArray(inj) ==
    LET targetType == inspectTargetType(inj)
    IN  IF targetType # "Array"
        THEN IF targetType = UnknownType
             THEN Threw("TypeError") ELSE Threw("TypeMismatch")
        ELSE Returned(Undefined)

\* resolveValuesByFilter(ctx, injection, session)
resolveValuesByFilter(s) ==
    /\ injection.resolve = "resolveValuesByFilter"
    /\ last' = LastIn("resolveValuesByFilter", s,
            IF assertTargetIsArray(injection).threw
            THEN assertTargetIsArray(injection)
            ELSE ListOutcome(viewValues(registry, injection.bindingSelector.filter,
                                        StackOf(sessions, s))))
    /\ UNCHANGED <<registry, lookups, sessions, getters, setters, views, injection, fvars, dvars>>

\* resolveAsContextView(ctx, injection, session)
resolveAsContextView(s) ==
    /\ injection.resolve = "resolveAsContextView"
    /\ Len(views) < MaxViews
    /\ LET targetType == inspectTargetType(injection)
       IN  IF targetType # UnknownType /\ targetType # "ContextView"
           THEN /\ last' = LastIn("resolveAsContextView", s, Threw("TypeMismatch"))
                /\ UNCHANGED views
           ELSE /\ views' = Append(views,
                      ConfigView(injection.bindingSelector.filter, Path(FALSE, <<>>)))
                /\ last' = LastIn("resolveAsContextView", s, Returned("view"))
    /\ UNCHANGED <<registry, lookups, sessions, getters, setters, injection, fvars, dvars>>

(***************************************************************************)
(* Declarations.  The function inject(...) returns is applied to a site:    *)
(*   target  "class" for the constructor function (constructor parameters  *)
(*           and static members), "prototype" for instance members          *)
(*   member  the member name, "" for undefined (the constructor)            *)
(*   third   methodDescriptorOrParameterIndex: "index" for a number,        *)
(*           "descriptor" for a property descriptor, "absent" for undefined *)
(***************************************************************************)
Site(target, member, third) == [target |-> target, member |-> member, third |-> third]

Sites == {Site(t, m, x) : t \in {"class", "prototype"}, m \in {"", "m"},
                          x \in {"index", "descriptor", "absent"}}

\* markParameterOrPropertyAsInjected(target, member,
\* methodDescriptorOrParameterIndex): the metadata key the descriptor is
\* registered under, or the error
markAnyMemberAsInjected(site) ==
    IF site.third = "index"
    THEN Returned("parameters")
    ELSE IF site.member # ""
    THEN Returned("properties")
    ELSE Threw("NotSupported")
markParameterOrPropertyAsInjected(site) ==
    IF site.third = "index"
    THEN Returned("parameters")
    ELSE IF site.member # ""
    THEN IF site.target = "class"
         THEN Threw("StaticProperty")
         ELSE IF site.third # "absent"
         THEN Threw("Method")
         ELSE Returned("properties")
    ELSE Threw("NotSupported")

\* what the decorator factories register: the descriptor, against the site
Registration(site, inj) == [site |-> site, injection |-> inj]

\* the declaration is applied to a site
Decorate(site) ==
    LET out == markParameterOrPropertyAsInjected(site)
    IN  /\ applied' = site
        /\ last' = LastOn("inject", site.member, "", out)
        /\ declared' = IF out.threw THEN declared
                       ELSE declared \cup {Registration(site, injection)}
        /\ UNCHANGED <<registry, lookups, sessions, getters, setters, views,
                       injection, fvars, twin>>

(***************************************************************************)
(* Initial states                                                           *)
(***************************************************************************)
\* ctx.configure(key, value)
configure(reg, key, value) == BindTo(reg, buildKeyForConfig(key), value)

\* The stores the resolvers run against: nothing bound; store1 bound and
\* configured; both bound and configured differently; both bound and only
\* store1 configured.
BothBound == BindTo(BindTo(EmptyStore, "store1", "v1"), "store2", "v2")

InitialStores ==
    { EmptyStore,
      configure(BindTo(EmptyStore, "store1", "v1"), "store1", "cfgA"),
      configure(configure(BothBound, "store1", "cfgA"), "store2", "cfgN"),
      configure(BothBound, "store1", "cfgB") }

Metas == {Meta(o, "unset") : o \in OptionalFlags}

GetterInjections ==
    {injectGetter(AddressSelector(k), m, pt) :
        k \in Keys, m \in Metas, pt \in Points} \cup
    {injectGetter(FilterSelector(f), m, pt) :
        f \in StoreFilters, m \in {NoMeta}, pt \in Points} \cup
    {injectConfigGetter(cp, m, pt) :
        cp \in ConfigPaths, m \in Metas, pt \in Points}

SetterInjections ==
    {injectSetter(AddressSelector(k), Meta("unset", bc), pt) :
        k \in Keys, bc \in BindingCreationPolicies, pt \in Points} \cup
    {injectSetter(FilterSelector(f), NoMeta, pt) :
        f \in {AllFilter}, pt \in Points}

ConfigPoints == {Point(UnknownType, UnknownType), Point("ContextView", UnknownType),
                 Point(UnknownType, "Array")}

\* the declarations of the value forms: @inject.config and @config
ConfigValueInjections ==
    {injectConfig(cp, m, pt) :
        cp \in ConfigPaths, m \in Metas, pt \in {Point(UnknownType, UnknownType)}} \cup
    {config(cp, m, pt) :
        cp \in ConfigPaths, m \in Metas, pt \in {Point(UnknownType, UnknownType)}}

\* the declarations of every form: value, getter and view
ConfigInjections ==
    ConfigValueInjections \cup
    {injectConfigGetter(cp, m, pt) :
        cp \in ConfigPaths, m \in Metas, pt \in {Point(UnknownType, UnknownType)}} \cup
    {injectConfigView(cp, m, pt) :
        cp \in ConfigPaths, m \in {NoMeta}, pt \in ConfigPoints}

\* a filter reaches the address-only strategies when the caller passes one
\* where the signature asks for an address
BindingInjections ==
    {injectBinding(AddressSelector(k), Meta("unset", bc), pt) :
        k \in Keys, bc \in BindingCreationPolicies, pt \in Points} \cup
    {injectBinding(FilterSelector(f), Meta("unset", bc), pt) :
        f \in {AllFilter}, bc \in BindingCreationPolicies, pt \in Points}

\* the declarations of the strategies that check the type of the point
TypedInjections ==
    {injectSelector(FilterSelector(f), NoMeta, pt) :
        f \in StoreFilters, pt \in Points} \cup
    {injectByFilter(f, NoMeta, pt) : f \in StoreFilters, pt \in Points} \cup
    {injectGetter(AddressSelector(k), NoMeta, pt) : k \in Keys, pt \in Points} \cup
    {injectGetter(FilterSelector(f), NoMeta, pt) :
        f \in StoreFilters, pt \in Points} \cup
    {injectSetter(AddressSelector(k), NoMeta, pt) : k \in Keys, pt \in Points} \cup
    {injectBinding(AddressSelector(k), NoMeta, pt) : k \in Keys, pt \in Points} \cup
    {injectConfigView(cp, NoMeta, pt) : cp \in ConfigPaths, pt \in Points}

\* one declaration of every strategy built on inject(...)
DeclaredInjections ==
    LET pt == Point(UnknownType, UnknownType)
    IN  {injectSelector(AddressSelector("store1"), NoMeta, pt),
         injectSelector(FilterSelector(AllFilter), NoMeta, pt),
         injectGetter(AddressSelector("store1"), NoMeta, pt),
         injectGetter(FilterSelector(AllFilter), NoMeta, pt),
         injectSetter(AddressSelector("store1"), NoMeta, pt),
         injectBinding(AddressSelector("store1"), NoMeta, pt),
         injectByFilter(AllFilter, NoMeta, pt),
         injectConfig(Path(TRUE, <<"x">>), NoMeta, pt),
         config(Path(TRUE, <<"x">>), NoMeta, pt),
         injectConfigGetter(Path(TRUE, <<"x">>), NoMeta, pt),
         injectConfigView(Path(TRUE, <<"x">>), NoMeta, pt)}

\* nothing was resolved and nothing was declared
NoSite == [target |-> "none", member |-> "", third |-> "absent"]
NoTwin == [injection |-> NoInjection, out |-> NoOutcome]

EIdle ==
    /\ lookups = 0
    /\ sessions = <<>>
    /\ getters = <<>>
    /\ setters = <<>>
    /\ views = <<>>
    /\ last = Last("none", NoOutcome)
    /\ declared = {}
    /\ applied = NoSite
    /\ twin = NoTwin

(***************************************************************************)
(* Specifications                                                           *)
(***************************************************************************)
\* the filter language
\* the inputs of the filter language: the pattern a constructor is given
\* and the binding its filter is called on
FInit ==
    /\ fPattern \in {[ctor |-> "none", pattern |-> p] : p \in KeyPatterns \cup TagPatterns}
    /\ fBinding \in Bindings
    /\ filt = NoFilter
    /\ fSelected = "none"
    /\ fAgain = "none"
    /\ EIdle
    /\ registry = EmptyStore
    /\ injection = NoInjection

SpecFilter == FInit /\ [][FNext]_vars

\* the filter language, with filters that are called again and again
SpecFilterReuse == FInit /\ [][FRNext]_vars

\* the getter strategies
GInit ==
    /\ FIdle
    /\ EIdle
    /\ registry \in InitialStores
    /\ injection \in GetterInjections

GNext ==
    \/ NewSession
    \/ \E s \in SessionIds, k \in Keys : EnterBinding(s, k)
    \/ \E s \in SessionIds : LeaveBinding(s)
    \/ \E s \in {NoSession} \cup SessionIds : resolveAsGetter(s)
    \/ \E s \in {NoSession} \cup SessionIds : resolveAsGetterByFilter(s)
    \/ \E s \in {NoSession} \cup SessionIds : resolveAsGetterFromConfig(s)
    \/ \E i \in GetterIds : CallGetter(i)
    \/ \E i \in GetterIds : SettleGetter(i)

SpecGetter == GInit /\ [][GNext]_vars

\* the setter strategy
SInit ==
    /\ FIdle
    /\ EIdle
    /\ registry \in InitialStores
    /\ injection \in SetterInjections \cup BindingInjections

SNext ==
    \/ resolveAsSetter
    \/ resolveAsBinding
    \/ \E i \in SetterIds, v \in PlainValues : CallSetter(i, v)
    \/ \E k \in Keys : GetValue(k)
    \/ \E k \in Keys : Unbind(k)

SpecSetter == SInit /\ [][SNext]_vars

\* the scoped-configuration strategies, value forms
CInit ==
    /\ FIdle
    /\ EIdle
    /\ registry \in InitialStores
    /\ injection \in ConfigValueInjections

CNext ==
    \/ NewSession
    \/ \E s \in SessionIds, k \in Keys : EnterBinding(s, k)
    \/ \E s \in SessionIds : LeaveBinding(s)
    \/ \E s \in {NoSession} \cup SessionIds : ResolveFromConfigInject(s)
    \/ \E s \in {NoSession} \cup SessionIds : ResolveFromConfigConfig(s)

SpecConfig == CInit /\ [][CNext]_vars

\* the scoped-configuration strategies, every form
CFInit ==
    /\ FIdle
    /\ EIdle
    /\ registry \in InitialStores
    /\ injection \in ConfigInjections

CFNext ==
    \/ NewSession
    \/ \E s \in SessionIds, k \in Keys : EnterBinding(s, k)
    \/ \E s \in SessionIds : LeaveBinding(s)
    \/ \E s \in {NoSession} \cup SessionIds : ResolveFromConfigInject(s)
    \/ \E s \in {NoSession} \cup SessionIds : ResolveFromConfigConfig(s)
    \/ \E s \in {NoSession} \cup SessionIds : resolveAsGetterFromConfig(s)
    \/ \E i \in GetterIds : CallGetter(i)
    \/ \E i \in GetterIds : SettleGetter(i)
    \/ \E s \in {NoSession} \cup SessionIds : resolveAsViewFromConfig(s)
    \/ \E i \in ViewIds, s \in {NoSession} \cup SessionIds : ViewValues(i, s)

SpecConfigForms == CFInit /\ [][CFNext]_vars

\* the strategies with a constraint on the type of the injection point
TInit ==
    /\ FIdle
    /\ EIdle
    /\ registry \in InitialStores
    /\ injection \in TypedInjections

TNext ==
    \/ NewSession
    \/ \E s \in SessionIds, k \in Keys : EnterBinding(s, k)
    \/ \E s \in SessionIds : LeaveBinding(s)
    \/ \E s \in {NoSession} \cup SessionIds : resolveValuesByFilter(s)
    \/ \E s \in {NoSession} \cup SessionIds : resolveAsContextView(s)
    \/ \E s \in {NoSession} \cup SessionIds : resolveAsGetter(s)
    \/ \E s \in {NoSession} \cup SessionIds : resolveAsGetterByFilter(s)
    \/ resolveAsSetter
    \/ resolveAsBinding
    \/ \E s \in {NoSession} \cup SessionIds : resolveAsViewFromConfig(s)

SpecTyped == TInit /\ [][TNext]_vars

\* the declarations
DInit ==
    /\ FIdle
    /\ EIdle
    /\ registry = EmptyStore
    /\ injection \in DeclaredInjections

DNext == \E site \in Sites : Decorate(site)

SpecDeclare == DInit /\ [][DNext]_vars

\* the two scoped-configuration declarations, made with the same arguments
PInit ==
    /\ FIdle
    /\ lookups = 0
    /\ sessions = <<>>
    /\ getters = <<>>
    /\ setters = <<>>
    /\ views = <<>>
    /\ last = Last("none", NoOutcome)
    /\ declared = {}
    /\ applied = NoSite
    /\ registry \in InitialStores
    /\ \E cp \in ConfigPaths, m \in Metas :
          /\ injection = injectConfig(cp, m, Point(UnknownType, UnknownType))
          /\ twin = [injection |-> config(cp, m, Point(UnknownType, UnknownType)),
                     out |-> NoOutcome]

PNext ==
    \/ NewSession
    \/ \E s \in SessionIds, k \in Keys : EnterBinding(s, k)
    \/ \E s \in SessionIds : LeaveBinding(s)
    \/ \E s \in {NoSession} \cup SessionIds : ResolveFromConfigBoth(s)

SpecConfigPair == PInit /\ [][PNext]_vars

(***************************************************************************)
(* Properties of the getter strategies                                      *)
(***************************************************************************)
\* what a getter yields when it looks up with the stack it was created on
SnapshotOutcome(g) ==
    IF g.kind = "config" /\ ~g.hasKey
    THEN Returned(Undefined)
    ELSE LookupOutcome(registry, g, g.snapshot)

Invoked(i) == getters'[i].calls = getters[i].calls + 1

\* a step in which a resolver returns a getter
GetterCreated == Len(getters') > Len(getters)

\* C2 as stated: creating a getter leaves the store and the number of
\* lookups as they were, and every call of a getter makes exactly one lookup.
C2_OneLookupPerCall ==
    [][/\ GetterCreated => UNCHANGED <<registry, lookups>>
       /\ \A i \in GetterIds : Invoked(i) => lookups' = lookups + 1]_vars

\* C2 amended: creating a getter leaves the store and the number of lookups
\* as they were; lookups are made by calls of getters only, one per call,
\* except that a configuration getter created without a current binding
\* makes none.
C2_LookupOnlyOnCall ==
    [][/\ registry' = registry
       /\ GetterCreated => lookups' = lookups
       /\ lookups' # lookups => \E i \in GetterIds : Invoked(i)
       /\ \A i \in GetterIds : Invoked(i) =>
             lookups' = lookups +
                (IF getters[i].kind = "config" /\ ~getters[i].hasKey
                 THEN 0 ELSE 1)]_vars

\* two getters exist and exactly one lookup was made, by the one call so far
C2_Witness ==
    /\ Len(getters) = 2
    /\ lookups = 1
    /\ \E i \in GetterIds : getters[i].calls = 1 /\ getters[i].result # NoOutcome
    /\ \E i \in GetterIds : getters[i].calls = 0

(***************************************************************************)
(* Properties of the setter strategy                                        *)
(***************************************************************************)
AfterSetter == last.op = "setter"

\* C3 as stated: after a setter for K was called with v, get(K) returns v.
C3_SetterRoundTrip ==
    AfterSetter => getValue(registry, last.key, FALSE, <<>>) = Returned(last.arg)

\* C3 amended: after a setter for K was called with v and returned, get(K)
\* returns v; the call fails only under the policy NEVER_CREATE with K not
\* bound.
C3_SetterRoundTripUnlessNeverCreate ==
    AfterSetter =>
        /\ ~last.out.threw =>
              getValue(registry, last.key, FALSE, <<>>) = Returned(last.arg)
        /\ last.out.threw =>
              /\ injection.metadata.bindingCreation = "NEVER_CREATE"
              /\ ~isBound(registry, last.key)

\* a setter was called a second time and the store holds its last value
C3_Witness ==
    /\ AfterSetter
    /\ ~last.out.threw
    /\ \E i \in SetterIds : setters[i].calls = 2
    /\ registry[last.key] = last.arg

\* the strategies that take an address only
AddressOnly == {"resolveAsSetter", "resolveAsBinding"}

\* C11: for a setter or raw-binding injection whose selector is a filter,
\* whatever the type of the injection point: every resolution throws, no
\* setter is ever returned, and no step of a resolver creates or changes a
\* binding of the store (the store changes by unbind only).
C11_FilterSelectorFails ==
    [][(injection.resolve \in AddressOnly /\
        ~isBindingAddress(injection.bindingSelector)) =>
            /\ setters' = setters
            /\ last'.op \in AddressOnly => last'.out.threw
            /\ registry' # registry => last'.op = "unbind"]_vars

\* a raw-binding injection with a filter selector, the policy that always
\* creates and a point of unknown type was resolved against a store with
\* bindings, and threw
C11_Witness ==
    /\ injection.resolve = "resolveAsBinding"
    /\ ~isBindingAddress(injection.bindingSelector)
    /\ injection.metadata.bindingCreation = "ALWAYS_CREATE"
    /\ inspectTargetType(injection) = UnknownType
    /\ last.op = "resolveAsBinding"
    /\ last.out.threw
    /\ isBound(registry, "store1")

(***************************************************************************)
(* Properties of the type constraints                                       *)
(***************************************************************************)
TypeChecked ==
    {"resolveValuesByFilter", "resolveAsContextView", "resolveAsGetter",
     "resolveAsGetterByFilter", "resolveAsSetter", "resolveAsBinding",
     "resolveAsViewFromConfig"}

\* errors that come from looking at the type of the point
TypeErrors == {Threw("TypeMismatch"), Threw("TypeError")}

\* C12: when the type of the injection point is unknown, no strategy with a
\* type constraint fails on account of the type: a resolver called with a
\* selector of its kind (and, for the configuration view, with a session)
\* does not end in a type error.
C12_UnknownTypeSkipsCheck ==
    (/\ inspectTargetType(injection) = UnknownType
     /\ last.op \in TypeChecked
     /\ last.op = "resolveAsViewFromConfig" => last.session # NoSession)
        => last.out \notin TypeErrors

(***************************************************************************)
(* Properties of the declarations                                           *)
(***************************************************************************)
\* the sites as the decorated program text has them
IsParameter(site) == site.third = "index"
IsStaticProperty(site) ==
    site.target = "class" /\ site.member # "" /\ site.third = "absent"
IsMethod(site) == site.member # "" /\ site.third = "descriptor"
IsInstanceProperty(site) ==
    site.target = "prototype" /\ site.member # "" /\ site.third = "absent"

RegisteredAt(site) == \E d \in declared : d.site = site

\* C13: a declaration applied to a static property or to a method throws
\* and registers nothing for that member, whatever the strategy; applied to
\* a constructor or method parameter or to an instance property it returns
\* and the descriptor is registered for the site.
C13_DeclarationSites ==
    /\ \A site \in Sites :
          (IsStaticProperty(site) \/ IsMethod(site)) => ~RegisteredAt(site)
    /\ last.op = "inject" =>
          /\ (IsStaticProperty(applied) \/ IsMethod(applied)) => last.out.threw
          /\ (IsParameter(applied) \/ IsInstanceProperty(applied)) =>
                /\ ~last.out.threw
                /\ Registration(applied, injection) \in declared

\* the setter declaration was accepted on a constructor parameter and on an
\* instance property, and has just been rejected on an instance method
C13_Witness ==
    /\ injection.resolve = "resolveAsSetter"
    /\ RegisteredAt(Site("class", "", "index"))
    /\ RegisteredAt(Site("prototype", "m", "absent"))
    /\ last.op = "inject"
    /\ applied = Site("prototype", "m", "descriptor")
    /\ last.out = Threw("Method")

(***************************************************************************)
(* Properties of the scoped-configuration strategies                        *)
(***************************************************************************)
ValueForms == {"inject.resolveFromConfig", "config.resolveFromConfig"}

Top(stack) == stack[Len(stack)]

\* the configuration of the binding K, projected by the path; undefined or
\* a failure when K has none
OwnConfig(key, path, out) ==
    IF isBound(registry, buildKeyForConfig(key))
    THEN out = Returned(getDeepProperty(registry[buildKeyForConfig(key)], path))
    ELSE out \in {Returned(Undefined), Threw("NotBound")}

NoConfiguration(stack) ==
    \/ stack = <<>>
    \/ ~isBound(registry, buildKeyForConfig(Top(stack)))

\* C5: for a declaration that leaves the injection optional, when the
\* session has no current binding (or there is no session) or the current
\* binding has no configuration, the value forms yield undefined and the
\* getter form yields a getter that yields undefined; none of them throws.
C5_AbsentConfigIsUndefined ==
    Truthy(injection.metadata.optional) =>
        /\ (last.op \in ValueForms /\ NoConfiguration(last.stack)) =>
              last.out = Returned(Undefined)
        /\ (last.op = "resolveAsGetterFromConfig" /\ NoConfiguration(last.stack)) =>
              last.out = Returned("getter")
        /\ \A i \in GetterIds :
              (/\ getters[i].kind = "config"
               /\ NoConfiguration(getters[i].snapshot)
               /\ getters[i].result # NoOutcome) =>
                    getters[i].result = Returned(Undefined)

\* C15: declared with the same path and metadata, inject.config and config
\* make descriptors with the same selector, path, optional flag and policy,
\* and resolved against the same store with the same session (or without
\* one) they end the same way: the same value, or both fail alike.
C15_ConfigDeclarationsAgree ==
    /\ twin.injection.resolve = "config.resolveFromConfig" =>
          /\ twin.injection.bindingSelector = injection.bindingSelector
          /\ twin.injection.metadata.configPath = injection.metadata.configPath
          /\ twin.injection.metadata.optional = injection.metadata.optional
          /\ twin.injection.metadata.bindingCreation =
                injection.metadata.bindingCreation
    /\ last.op = "resolveFromConfig" => last.out = twin.out

\* C6: values() of the view injected for the path p yields the configuration
\* values projected by p, and the whole values when p is empty.
C6_ViewProjectsPath ==
    (last.op = "values" /\ ~last.out.threw) =>
        last.out = Returned(ArrayOf(
            IF isBound(registry, last.key)
            THEN <<getDeepProperty(registry[last.key],
                                   injection.metadata.configPath)>>
            ELSE <<>>))

====
